---- MODULE Spec2Model ----
(***************************************************************************)
(* Model of tunnel_v4.py: the coordinator runn, the three units it starts  *)
(* (webui, pingy_in, pingy_out), the scratch sink .cache/pigy.txt they     *)
(* share, and the text processing pingy_out applies to the sink content.   *)
(*                                                                         *)
(* Text is a sequence of character codes (ASCII), so that the character    *)
(* classes of the regular expressions are the ranges the source writes.    *)
(***************************************************************************)
EXTENDS Integers, Sequences, FiniteSets, TLC

----------------------------------------------------------------------------
(* Literals of the regular expressions and of the dashboard filter.        *)

\* 'http' of r'https?://'
HttpLit ==
    <<104, 116, 116, 112>>
\* '://' of r'https?://'
SchemeSep ==
    <<58, 47, 47>>
\* r'\.a\.free\.pinggy\.link'
FreeSuffix ==
    <<46, 97, 46, 102, 114, 101, 101, 46, 112, 105, 110, 103, 103, 121, 46, 108, 105, 110, 107>>
\* r'\.a\.pinggy\.link'
ProSuffix ==
    <<46, 97, 46, 112, 105, 110, 103, 103, 121, 46, 108, 105, 110, 107>>
\* r'\.pinggy\.link'
LegacySuffix ==
    <<46, 112, 105, 110, 103, 103, 121, 46, 108, 105, 110, 107>>
\* r'pinggy\.link' of the general pattern
PinggyLink ==
    <<112, 105, 110, 103, 103, 121, 46, 108, 105, 110, 107>>
\* r'pinggy\.io' of the general pattern
PinggyIo ==
    <<112, 105, 110, 103, 103, 121, 46, 105, 111>>
\* 'dashboard.pinggy.io'
DashboardHost ==
    <<100, 97, 115, 104, 98, 111, 97, 114, 100, 46, 112, 105, 110, 103, 103, 121, 46, 105, 111>>

\* tunnel_patterns, in list order: free tier, pro tier, legacy
tunnel_patterns == <<FreeSuffix, ProSuffix, LegacySuffix>>

----------------------------------------------------------------------------
(* Character classes.                                                      *)

\* \x1B
IsEsc(c) == c = 27
\* [@-Z\\-_]
IsAnsiSingle(c) == c \in 64..90 \/ c \in 92..95
\* \[
IsCsiOpen(c) == c = 91
\* [0-?]
IsParam(c) == c \in 48..63
\* [ -/]
IsInter(c) == c \in 32..47
\* [@-~]
IsFinal(c) == c \in 64..126
\* [\x00-\x08\x0B\x0C\x0E-\x1F\x7F]
IsStrippedControl(c) == c \in 0..8 \/ c \in {11, 12} \/ c \in 14..31 \/ c = 127
\* [a-zA-Z0-9-]
IsLabel(c) == c \in 97..122 \/ c \in 65..90 \/ c \in 48..57 \/ c = 45
\* \s of a str pattern, within ASCII
IsSpace(c) == c \in 9..13 \/ c \in 28..32
\* [^\s\]]
IsUrlChar(c) == ~IsSpace(c) /\ c # 93

----------------------------------------------------------------------------
(* Matching helpers. Positions are 1-based; a length of 0 is "no match".   *)

\* whether the literal lit occurs in t at position i
HasAt(t, i, lit) ==
    /\ i >= 1
    /\ i + Len(lit) - 1 <= Len(t)
    /\ \A k \in 1..Len(lit) : t[i + k - 1] = lit[k]

\* Python's  lit in t
Contains(t, lit) == \E i \in 1..Len(t) : HasAt(t, i, lit)

\* The least element of a non-empty set of positions
Least(S) == CHOOSE k \in S : \A m \in S : k <= m

\* greedy [0-?]* from i: the first position after it
SkipParams(t, i) ==
    Least({k \in i..(Len(t) + 1) : k > Len(t) \/ ~IsParam(t[k])})

\* greedy [ -/]* from i
SkipInters(t, i) ==
    Least({k \in i..(Len(t) + 1) : k > Len(t) \/ ~IsInter(t[k])})

\* greedy [a-zA-Z0-9-]* from i
SkipLabel(t, i) ==
    Least({k \in i..(Len(t) + 1) : k > Len(t) \/ ~IsLabel(t[k])})

\* greedy [^\s\]]* from i
SkipUrlChars(t, i) ==
    Least({k \in i..(Len(t) + 1) : k > Len(t) \/ ~IsUrlChar(t[k])})

\* Length of the match of \x1B(?:[@-Z\\-_]|\[[0-?]*[ -/]*[@-~]) at i.
\* The three classes of the CSI branch are pairwise disjoint, so giving back
\* characters of a greedy star never produces a match the greedy run misses.
AnsiMatchLen(t, i) ==
    IF ~(i + 1 <= Len(t) /\ IsEsc(t[i])) THEN 0
    ELSE IF IsAnsiSingle(t[i + 1]) THEN 2
    ELSE IF IsCsiOpen(t[i + 1]) THEN
        LET k == SkipInters(t, SkipParams(t, i + 2))
        IN  IF k <= Len(t) /\ IsFinal(t[k]) THEN k - i + 1 ELSE 0
    ELSE 0

RECURSIVE AnsiSubFrom(_, _)
\* ansi_escape.sub('', t), scanning from i: leftmost matches, not overlapping;
\* the text up to the next match is kept, the match dropped
AnsiSubFrom(t, i) ==
    LET at == {k \in i..Len(t) : AnsiMatchLen(t, k) > 0}
    IN  IF at = {} THEN SubSeq(t, i, Len(t))
        ELSE LET k == Least(at)
             IN  SubSeq(t, i, k - 1) \o AnsiSubFrom(t, k + AnsiMatchLen(t, k))

\* ansi_escape.sub('', content)
AnsiSub(t) == AnsiSubFrom(t, 1)

\* re.sub(r'[\x00-\x08\x0B\x0C\x0E-\x1F\x7F]', '', t)
ControlSub(t) == SelectSeq(t, LAMBDA c : ~IsStrippedControl(c))

\* only the escape sequences are removed
StripAnsiOnly(t) == AnsiSub(t)

\* cleaned_content: both substitutions, in the order of the source
Strip(t) == ControlSub(AnsiSub(t))

\* Length of the match of https?:// at i (7 or 8), 0 when there is none
SchemeLen(t, i) ==
    IF ~HasAt(t, i, HttpLit) THEN 0
    ELSE IF HasAt(t, i + 4, SchemeSep) THEN 7
    ELSE IF i + 4 <= Len(t) /\ t[i + 4] = 115 /\ HasAt(t, i + 5, SchemeSep) THEN 8
    ELSE 0

\* Length of the match of https?://[a-zA-Z0-9-]+<suffix> at i. The suffix
\* starts with '.', which the label class excludes, so the label is exactly
\* the greedy run.
TunnelMatchLen(t, i, suffix) ==
    LET s == SchemeLen(t, i)
        j == SkipLabel(t, i + s)
    IN  IF s > 0 /\ j > i + s /\ HasAt(t, j, suffix)
        THEN j - i + Len(suffix) ELSE 0

\* Length of the match of
\*   https?://[^\s\]]+(?:pinggy\.link|pinggy\.io)[^\s\]]*        at i.
\* The trailing star takes the rest of the run of [^\s\]] whichever
\* occurrence of the domain the backtracking settles on, so a match is the
\* scheme plus the whole run, and exists when a domain occurs in the run
\* after at least one character.
GeneralMatchLen(t, i) ==
    LET s == SchemeLen(t, i)
        e == SkipUrlChars(t, i + s)
    IN  IF /\ s > 0
           /\ \E k \in (i + s + 1)..(e - 1) :
                 \/ HasAt(t, k, PinggyLink) /\ k + Len(PinggyLink) <= e
                 \/ HasAt(t, k, PinggyIo) /\ k + Len(PinggyIo) <= e
        THEN e - i ELSE 0

RECURSIVE FindAllTunnelFrom(_, _, _)
\* re.findall(pattern, t) for a tunnel pattern, scanning from i: the leftmost
\* match, then the scan resumes after it
FindAllTunnelFrom(t, i, suffix) ==
    LET at == {k \in i..Len(t) : TunnelMatchLen(t, k, suffix) > 0}
    IN  IF at = {} THEN <<>>
        ELSE LET k == Least(at)
                 n == TunnelMatchLen(t, k, suffix)
             IN  <<SubSeq(t, k, k + n - 1)>> \o FindAllTunnelFrom(t, k + n, suffix)

FindAllTunnel(t, suffix) == FindAllTunnelFrom(t, 1, suffix)

RECURSIVE FindAllGeneralFrom(_, _)
\* re.findall(general_pattern, t), scanning from i
FindAllGeneralFrom(t, i) ==
    LET at == {k \in i..Len(t) : GeneralMatchLen(t, k) > 0}
    IN  IF at = {} THEN <<>>
        ELSE LET k == Least(at)
                 n == GeneralMatchLen(t, k)
             IN  <<SubSeq(t, k, k + n - 1)>> \o FindAllGeneralFrom(t, k + n)

FindAllGeneral(t) == FindAllGeneralFrom(t, 1)

RECURSIVE CollectFrom(_, _)
\* found_urls: the matches of the patterns from index p on, pattern by pattern
CollectFrom(t, p) ==
    IF p > Len(tunnel_patterns) THEN <<>>
    ELSE FindAllTunnel(t, tunnel_patterns[p]) \o CollectFrom(t, p + 1)

found_urls(t) == CollectFrom(t, 1)

\* whether u is an element of the list l
InList(u, l) == \E k \in 1..Len(l) : l[k] = u

RECURSIVE UniqueNewestFirst(_, _, _)
\* a loop that puts each new URL in front of those it has
UniqueNewestFirst(found, k, acc) ==
    IF k > Len(found) THEN acc
    ELSE UniqueNewestFirst(found, k + 1,
            IF ~InList(found[k], acc) /\ ~Contains(found[k], DashboardHost)
            THEN <<found[k]>> \o acc ELSE acc)

RECURSIVE UniqueFrom(_, _, _)
\* the loop building unique_urls, from index k of found on, acc built so far
UniqueFrom(found, k, acc) ==
    IF k > Len(found) THEN acc
    ELSE UniqueFrom(found, k + 1,
            IF ~InList(found[k], acc) /\ ~Contains(found[k], DashboardHost)
            THEN Append(acc, found[k]) ELSE acc)

unique_urls(t) == UniqueFrom(found_urls(t), 1, <<>>)

\* the general matches, the dashboard among them
tunnel_urls_unfiltered(t) == FindAllGeneral(t)

\* tunnel_urls of the fallback: the general matches without the dashboard
tunnel_urls(t) ==
    SelectSeq(FindAllGeneral(t), LAMBDA u : ~Contains(u, DashboardHost))

\* What one poll prints for cleaned content t: the prioritized list when it
\* is not empty, else the fallback list (empty: nothing is printed).
PollUrls(t) ==
    IF unique_urls(t) # <<>> THEN unique_urls(t) ELSE tunnel_urls(t)

----------------------------------------------------------------------------
(* What the tunnel command writes to its standard output, chunk by chunk.  *)

\* 'https://fa.a.free.pinggy.link'
UrlFreeA ==
    <<104, 116, 116, 112, 115, 58, 47, 47, 102, 97, 46, 97, 46, 102, 114, 101, 101, 46, 112, 105, 110, 103, 103, 121, 46, 108, 105, 110, 107>>
\* 'http://fb.a.free.pinggy.link'
UrlFreeB ==
    <<104, 116, 116, 112, 58, 47, 47, 102, 98, 46, 97, 46, 102, 114, 101, 101, 46, 112, 105, 110, 103, 103, 121, 46, 108, 105, 110, 107>>
\* 'https://pa.a.pinggy.link'
UrlProA ==
    <<104, 116, 116, 112, 115, 58, 47, 47, 112, 97, 46, 97, 46, 112, 105, 110, 103, 103, 121, 46, 108, 105, 110, 107>>
\* 'https://la.pinggy.link'
UrlLegacyA ==
    <<104, 116, 116, 112, 115, 58, 47, 47, 108, 97, 46, 112, 105, 110, 103, 103, 121, 46, 108, 105, 110, 107>>
\* 'https://dashboard.pinggy.io/x'
UrlDashboard ==
    <<104, 116, 116, 112, 115, 58, 47, 47, 100, 97, 115, 104, 98, 111, 97, 114, 100, 46, 112, 105, 110, 103, 103, 121, 46, 105, 111, 47, 120>>
\* 'https://t.pinggy.io'
UrlIo ==
    <<104, 116, 116, 112, 115, 58, 47, 47, 116, 46, 112, 105, 110, 103, 103, 121, 46, 105, 111>>
\* '\x1b[0m'
TxtCsi == <<27, 91, 48, 109>>
\* '\x1b['
TxtCsiOpen == <<27, 91>>
\* '\x07'
TxtBel == <<7>>
\* ' '
TxtSpace == <<32>>

\* What a tunnel command of the full system writes, in this order: a
\* coloured line with the dashboard URL, then the line with the tunnel URL.
TunnelOutput ==
    << TxtCsi \o UrlDashboard \o TxtSpace, UrlFreeA \o TxtSpace >>

\* How many sessions are run one after the other
MaxRuns == 2
\* By how much a sleep of the poll loop may overrun its interval
MaxDelay == 1

\* How many pieces a sink content is built of
MaxPieces == 3

Pieces ==
    { UrlFreeA, UrlFreeB, UrlProA, UrlLegacyA, UrlDashboard, UrlIo,
      TxtCsi, TxtCsiOpen, TxtBel, TxtSpace }

RECURSIVE Concat(_)
Concat(s) == IF s = <<>> THEN <<>> ELSE Head(s) \o Concat(Tail(s))

Texts == UNION { { Concat(s) : s \in [1..n -> Pieces] } : n \in 0..MaxPieces }

\* the content after the first n chunks of the output
OutputPrefix(n) == Concat(SubSeq(TunnelOutput, 1, n))

\* the contents a sink open to the tunnel command can hold
OutputTexts == { OutputPrefix(n) : n \in 0..Len(TunnelOutput) }

----------------------------------------------------------------------------
(* The system: runn, its three units, and the sink.                        *)

VARIABLES
    run,          \* the number of the session (one invocation of the script)
    runn_pc,      \* where runn is
    webui_pc,     \* the webui unit (p_tun)
    in_pc,        \* the pingy_in unit (p_app)
    mech,         \* the mechanism pingy_in is at, 1..4
    invoked,      \* the mechanisms whose command this session started, in order
    outcome,      \* per mechanism: how its attempt ended
    sink,         \* .cache/pigy.txt: whether it exists, its content, the session that opened it
    linked,       \* the running command's stdout is the file now at the sink's path
    writes,       \* chunks written by the running command
    url_pc,       \* the pingy_out unit (p_url)
    elapsed,      \* time.time() - start_time of pingy_out
    printed,      \* the URLs pingy_out printed, in order
    timeoutMsgs,  \* how many times the timeout message was printed
    hits,         \* how many polls printed URLs
    sawUrl,       \* some poll read content that holds a matching URL
    staleRead     \* some poll read content written by an earlier session

vars == <<run, runn_pc, webui_pc, in_pc, mech, invoked, outcome, sink, linked,
          writes, url_pc, elapsed, printed, timeoutMsgs, hits, sawUrl,
          staleRead>>

runnVars == <<run, runn_pc>>
webuiVars == <<webui_pc>>
inVars == <<in_pc, mech, invoked, outcome, writes>>
sinkVars == <<sink, linked>>
urlVars == <<url_pc, elapsed, printed, timeoutMsgs, hits, sawUrl, staleRead>>

\* timeout=30 of pingy_out
Timeout == 30
\* time.sleep(2)
Interval == 2

Delays == 0..MaxDelay

Mechanisms == 1..4

NoOutcome == [k \in Mechanisms |-> "none"]

NoSink == [exists |-> FALSE, content |-> <<>>, run |-> 0]

\* a unit that has ended: returned, or died of an exception that escaped it
Ended(pc) == pc \in {"done", "crashed", "interrupted", "FOUND", "TIMED_OUT"}
\* a unit that was started and has not ended
Alive(pc) == pc # "idle" /\ ~Ended(pc)

\* the positions of runn inside its try block
InTry == {"start_tun", "start_app", "start_url", "join_tun", "join_app", "join_url"}

Init ==
    /\ run = 1
    /\ runn_pc = "start_tun"
    /\ webui_pc = "idle"
    /\ in_pc = "idle"
    /\ mech = 1
    /\ invoked = <<>>
    /\ outcome = NoOutcome
    /\ sink = NoSink
    /\ linked = FALSE
    /\ writes = 0
    /\ url_pc = "idle"
    /\ elapsed = 0
    /\ printed = <<>>
    /\ timeoutMsgs = 0
    /\ hits = 0
    /\ sawUrl = FALSE
    /\ staleRead = FALSE

----------------------------------------------------------------------------
(* runn                                                                    *)

\* os.system(f'rm -rf {cache_dir / "pigy.txt"}'): the path is gone; a command
\* that still holds the file open writes to a file no path leads to
Remove ==
    /\ sink' = NoSink
    /\ linked' = FALSE

\* p_tun.start()
StartTun ==
    /\ runn_pc = "start_tun"
    /\ runn_pc' = "start_app"
    /\ webui_pc' = "running"
    /\ UNCHANGED <<run, inVars, sinkVars, urlVars>>

\* p_app.start(): pingy_in begins with the probe of mechanism 1
StartApp ==
    /\ runn_pc = "start_app"
    /\ runn_pc' = "start_url"
    /\ in_pc' = "probe"
    /\ mech' = 1
    /\ UNCHANGED <<run, webuiVars, invoked, outcome, writes, sinkVars, urlVars>>

\* p_url.start(): pingy_out takes start_time and is at its loop condition
StartUrl ==
    /\ runn_pc = "start_url"
    /\ runn_pc' = "join_tun"
    /\ url_pc' = "loop"
    /\ elapsed' = 0
    /\ UNCHANGED <<run, webuiVars, inVars, sinkVars, printed, timeoutMsgs,
                   hits, sawUrl, staleRead>>

\* a join that returns while the application is still running
JoinTunNoWait ==
    /\ runn_pc = "join_tun"
    /\ runn_pc' = "join_app"
    /\ UNCHANGED <<run, webuiVars, inVars, sinkVars, urlVars>>

\* p_tun.join()
JoinTun ==
    /\ runn_pc = "join_tun"
    /\ Ended(webui_pc)
    /\ runn_pc' = "join_app"
    /\ UNCHANGED <<run, webuiVars, inVars, sinkVars, urlVars>>

\* p_app.join()
JoinApp ==
    /\ runn_pc = "join_app"
    /\ Ended(in_pc)
    /\ runn_pc' = "join_url"
    /\ UNCHANGED <<run, webuiVars, inVars, sinkVars, urlVars>>

\* p_url.join(); the try block ends and the finally clause is next
JoinUrl ==
    /\ runn_pc = "join_url"
    /\ Ended(url_pc)
    /\ runn_pc' = "finally"
    /\ UNCHANGED <<run, webuiVars, inVars, sinkVars, urlVars>>

\* the position of a unit after the interrupt, when it is among those hit:
\* KeyboardInterrupt is no Exception, so no except clause of a unit catches it
Hit(pc, isHit) == IF isHit /\ Alive(pc) THEN "interrupted" ELSE pc

\* KeyboardInterrupt in runn's try block. The signal reaches runn's process;
\* the units are processes of their own and each may or may not get it (the
\* whole foreground group from a terminal, runn alone from kill -INT).
Interrupt ==
    /\ runn_pc \in InTry
    /\ runn_pc' = "except"
    /\ \E D \in SUBSET {"webui", "pingy_in", "pingy_out"} :
          /\ webui_pc' = Hit(webui_pc, "webui" \in D)
          /\ in_pc' = Hit(in_pc, "pingy_in" \in D)
          /\ url_pc' = Hit(url_pc, "pingy_out" \in D)
          \* subprocess.run kills the command when the exception passes it
          /\ linked' = IF "pingy_in" \in D THEN FALSE ELSE linked
    /\ UNCHANGED <<run, mech, invoked, outcome, writes, sink, elapsed,
                   printed, timeoutMsgs, hits, sawUrl, staleRead>>

\* except KeyboardInterrupt: log, print, rm
Except ==
    /\ runn_pc = "except"
    /\ runn_pc' = "finally"
    /\ Remove
    /\ UNCHANGED <<run, webuiVars, inVars, urlVars>>

\* finally: rm; runn returns
Finally ==
    /\ runn_pc = "finally"
    /\ runn_pc' = "returned"
    /\ Remove
    /\ UNCHANGED <<run, webuiVars, inVars, urlVars>>

----------------------------------------------------------------------------
(* webui                                                                   *)

\* subprocess.run(command, shell=True, check=True) ends: it returns, or it
\* raises and the error is logged; either way webui returns
WebuiEnd ==
    /\ webui_pc = "running"
    /\ webui_pc' = "done"
    /\ UNCHANGED <<runnVars, inVars, sinkVars, urlVars>>

----------------------------------------------------------------------------
(* pingy_in. A position is <<in_pc, mech>>.                                *)

\* whether the except clauses of mechanism k catch an error of kind err:
\* (CalledProcessError, FileNotFoundError) for 1 and 2, CalledProcessError
\* for 3, CalledProcessError and Exception for 4
Caught(k, err) ==
    CASE k \in {1, 2} -> err \in {"nonzero", "fnf"}
      [] k = 3 -> err = "nonzero"
      [] k = 4 -> TRUE

\* where pingy_in goes once mechanism k's except clause has caught an error
FailNext(k) ==
    CASE k = 1 -> <<"probe", 2>>
      [] k = 2 -> <<"launch", 3>>
      [] k = 3 -> <<"launch", 4>>
      [] k = 4 -> <<"done", 4>>

\* an error of kind err in mechanism k: caught, or it escapes pingy_in
OnError(k, err) == IF Caught(k, err) THEN FailNext(k) ELSE <<"crashed", k>>

\* after the probe 'which ...' of mechanism k returned: the command of
\* mechanism 1, the script of mechanism 2
ProbeFound(k) == IF k = 1 THEN <<"launch", 1>> ELSE <<"script", 2>>

\* an exit that goes on to the next mechanism whatever the code
ExitNextNoReturn(k, code) == FailNext(k)

\* after the command of mechanism k exited with code: return on zero
ExitNext(k, code) == IF code = 0 THEN <<"done", k>> ELSE OnError(k, "nonzero")

\* a probe that leaves the mechanism's try block as if it had succeeded
ProbeFailedIgnored(k, err) == ProbeFound(k)

\* the probe of mechanism k raised err: it is inside the mechanism's try
\* block, so the error is handled as the mechanism's
ProbeFailed(k, err) == OnError(k, err)

\* how an error kind is recorded for a mechanism whose probe raised it:
\* a failed probe means the utility is absent
ProbeOutcome(err) == IF err \in {"nonzero", "fnf"} THEN "absent" ELSE "other"

\* subprocess.run(['which', ...], check=True, capture_output=True)
InProbe ==
    /\ in_pc = "probe"
    /\ \/ /\ in_pc' = ProbeFound(mech)[1]
          /\ mech' = ProbeFound(mech)[2]
          /\ UNCHANGED outcome
       \/ \E err \in {"nonzero", "fnf", "other"} :
             /\ in_pc' = ProbeFailed(mech, err)[1]
             /\ mech' = ProbeFailed(mech, err)[2]
             /\ outcome' = [outcome EXCEPT ![mech] = ProbeOutcome(err)]
    /\ UNCHANGED <<runnVars, webuiVars, invoked, writes, sinkVars, urlVars>>

\* with open(cache_dir / 'expect_script.exp', 'w') as f: f.write(...)
InScript ==
    /\ in_pc = "script"
    /\ \/ /\ in_pc' = "launch"
          /\ UNCHANGED <<mech, outcome>>
       \/ \E err \in {"fnf", "other"} :
             /\ in_pc' = OnError(mech, err)[1]
             /\ mech' = OnError(mech, err)[2]
             /\ outcome' = [outcome EXCEPT ![mech] = err]
    /\ UNCHANGED <<runnVars, webuiVars, invoked, writes, sinkVars, urlVars>>

\* subprocess.run(f'... > {output_file}', shell=True, check=True) starts the
\* command: the shell opens the sink for writing, which creates or empties
\* it, and runs the command. Or the shell cannot open the sink and exits
\* non-zero at once, the sink untouched. Or the shell cannot be started (a
\* launch error) and subprocess.run raises.
InLaunch ==
    /\ in_pc = "launch"
    /\ \/ /\ in_pc' = "running"
          /\ invoked' = Append(invoked, mech)
          /\ sink' = [exists |-> TRUE, content |-> <<>>, run |-> run]
          /\ linked' = TRUE
          /\ writes' = 0
          /\ UNCHANGED <<mech, outcome>>
       \/ /\ in_pc' = ExitNext(mech, 1)[1]
          /\ mech' = ExitNext(mech, 1)[2]
          /\ invoked' = Append(invoked, mech)
          /\ outcome' = [outcome EXCEPT ![mech] = "nonzero"]
          /\ UNCHANGED <<sinkVars, writes>>
       \/ /\ in_pc' = OnError(mech, "other")[1]
          /\ mech' = OnError(mech, "other")[2]
          /\ outcome' = [outcome EXCEPT ![mech] = "other"]
          /\ UNCHANGED <<invoked, sinkVars, writes>>
    /\ UNCHANGED <<runnVars, webuiVars, urlVars>>

\* the running command writes the next chunk of its output
InWrite ==
    /\ in_pc = "running"
    /\ writes < Len(TunnelOutput)
    /\ writes' = writes + 1
    /\ sink' = IF linked THEN [sink EXCEPT !.content = OutputPrefix(writes + 1)]
                ELSE sink
    /\ UNCHANGED <<runnVars, webuiVars, in_pc, mech, invoked, outcome, linked,
                   urlVars>>

\* the running command exits
InExit ==
    /\ in_pc = "running"
    /\ \E code \in {0, 1} :
          /\ in_pc' = ExitNext(mech, code)[1]
          /\ mech' = ExitNext(mech, code)[2]
          /\ outcome' = [outcome EXCEPT ![mech] = IF code = 0 THEN "ok" ELSE "nonzero"]
    /\ linked' = FALSE
    /\ UNCHANGED <<runnVars, webuiVars, invoked, writes, sink, urlVars>>

----------------------------------------------------------------------------
(* pingy_out                                                               *)

\* a loop condition that admits one more turn
LoopContinuesLate(e) == e <= Timeout

\* while time.time() - start_time < timeout
LoopContinues(e) == e < Timeout

\* after a poll that read the sink and found the list urls: return when it
\* is not empty, else the loop goes on
AfterPoll(urls) == IF urls # <<>> THEN "FOUND" ELSE "loop"

\* whether cleaned content c holds a matching URL: a match of a tunnel
\* pattern, or a match of the general pattern off the dashboard host
HasMatch(c) ==
    \/ \E p \in 1..Len(tunnel_patterns) : FindAllTunnel(c, tunnel_patterns[p]) # <<>>
    \/ \E k \in 1..Len(FindAllGeneral(c)) :
          ~Contains(FindAllGeneral(c)[k], DashboardHost)

\* what a poll that reads content t makes of it: cleaned_content, the list
\* it prints, and whether the cleaned content holds a matching URL
Reading(t) ==
    LET c == Strip(t)
    IN  [cleaned |-> c, urls |-> PollUrls(c), match |-> HasMatch(c)]

\* Reading, worked out once for each content a sink can hold: those the
\* tunnel command of the full system writes, and those built of pieces
ScrapeOutput == [t \in OutputTexts |-> Reading(t)]
ScrapeTexts == [t \in Texts |-> Reading(t)]
Scrape(t) == IF t \in OutputTexts THEN ScrapeOutput[t] ELSE ScrapeTexts[t]

\* One turn of the loop: the loop condition holds, time.sleep(2) returns no
\* sooner than after the interval, and the poll runs from the open of the
\* sink to the return or the end of the loop body. The file is missing
\* (FileNotFoundError, a warning), or reading it raises (except Exception,
\* an error is logged), or it is read, cleaned and searched.
UrlPoll ==
    /\ url_pc = "loop"
    /\ LoopContinues(elapsed)
    /\ \E d \in Delays : elapsed' = elapsed + Interval + d
    /\ \/ /\ ~sink.exists
          /\ UNCHANGED <<url_pc, printed, hits, sawUrl, staleRead>>
       \/ /\ sink.exists
          /\ UNCHANGED <<url_pc, printed, hits, sawUrl, staleRead>>
       \/ /\ sink.exists
          /\ LET r == Scrape(sink.content)
             IN  /\ printed' = printed \o r.urls
                 /\ hits' = IF r.urls # <<>> THEN hits + 1 ELSE hits
                 /\ url_pc' = AfterPoll(r.urls)
                 /\ sawUrl' = (sawUrl \/ r.match)
          /\ staleRead' = (staleRead \/ (sink.run # run /\ sink.content # <<>>))
    /\ UNCHANGED <<runnVars, webuiVars, inVars, sinkVars, timeoutMsgs>>

\* a timeout that prints nothing
UrlTimeoutSilent ==
    /\ url_pc = "loop"
    /\ ~(elapsed < Timeout)
    /\ url_pc' = "TIMED_OUT"
    /\ UNCHANGED <<runnVars, webuiVars, inVars, sinkVars, elapsed, printed,
                   timeoutMsgs, hits, sawUrl, staleRead>>

\* the loop condition fails: the timeout message is logged and printed
UrlTimeout ==
    /\ url_pc = "loop"
    /\ ~LoopContinues(elapsed)
    /\ timeoutMsgs' = timeoutMsgs + 1
    /\ url_pc' = "TIMED_OUT"
    /\ UNCHANGED <<runnVars, webuiVars, inVars, sinkVars, elapsed, printed,
                   hits, sawUrl, staleRead>>

----------------------------------------------------------------------------
(* The script is run again: a new session, in the same directory.          *)

\* The interpreter of a session exits once the units it started have ended
\* (multiprocessing joins them at exit). The next invocation creates
\* .cache if it is missing and calls runn; nothing touches pigy.txt before
\* the units start.
NewRun ==
    /\ runn_pc = "returned"
    /\ ~Alive(webui_pc) /\ ~Alive(in_pc) /\ ~Alive(url_pc)
    /\ run < MaxRuns
    /\ run' = run + 1
    /\ runn_pc' = "start_tun"
    /\ webui_pc' = "idle"
    /\ in_pc' = "idle"
    /\ mech' = 1
    /\ invoked' = <<>>
    /\ outcome' = NoOutcome
    /\ writes' = 0
    /\ url_pc' = "idle"
    /\ elapsed' = 0
    /\ printed' = <<>>
    /\ timeoutMsgs' = 0
    /\ hits' = 0
    /\ sawUrl' = FALSE
    /\ staleRead' = FALSE
    /\ UNCHANGED sinkVars

Next ==
    \/ StartTun \/ StartApp \/ StartUrl
    \/ JoinTun \/ JoinApp \/ JoinUrl
    \/ Interrupt \/ Except \/ Finally
    \/ WebuiEnd
    \/ InProbe \/ InScript \/ InLaunch \/ InWrite \/ InExit
    \/ UrlPoll \/ UrlTimeout
    \/ NewRun

Spec == Init /\ [][Next]_vars

----------------------------------------------------------------------------
(* pingy_out alone, over every sink content built of a few pieces.         *)

\* All units are started and runn waits in p_tun.join(). Either pingy_in is
\* still probing and there is no sink, or its utilities are absent, its
\* mechanism 3 runs and has written some content.
InitScrape ==
    /\ run = 1
    /\ runn_pc = "join_tun"
    /\ webui_pc = "running"
    /\ \/ /\ in_pc = "probe" /\ mech = 1 /\ invoked = <<>>
          /\ outcome = NoOutcome
          /\ sink = NoSink /\ linked = FALSE /\ writes = 0
       \/ /\ in_pc = "running" /\ mech = 3 /\ invoked = <<3>>
          /\ outcome = [NoOutcome EXCEPT ![1] = "absent", ![2] = "absent"]
          /\ \E t \in Texts : sink = [exists |-> TRUE, content |-> t, run |-> 1]
          /\ linked = TRUE /\ writes = Len(TunnelOutput)
    /\ url_pc = "loop"
    /\ elapsed = 0
    /\ printed = <<>>
    /\ timeoutMsgs = 0
    /\ hits = 0
    /\ sawUrl = FALSE
    /\ staleRead = FALSE

NextScrape == UrlPoll \/ UrlTimeout

SpecScrape == InitScrape /\ [][NextScrape]_vars

\* The scheduler runs pingy_out's process and its sleep returns: a turn of
\* the loop, or the timeout, that stays possible is taken.
FairSpec == Spec /\ WF_vars(UrlPoll) /\ WF_vars(UrlTimeout)

----------------------------------------------------------------------------
(* Properties.                                                             *)

\* C1: once runn has returned, on whichever path, .cache/pigy.txt does not
\* exist.
C1_NoSinkAfterReturn == runn_pc = "returned" => ~sink.exists

\* C2: the commands of the mechanisms are invoked in strictly increasing
\* priority order, a command is invoked only after every earlier mechanism
\* was attempted, and a mechanism (1 or 2) whose probe failed never has its
\* command invoked in the session.
C2_PriorityOrder ==
    /\ \A i, j \in 1..Len(invoked) : i < j => invoked[i] < invoked[j]
    /\ \A k \in 1..Len(invoked) : \A j \in 1..(invoked[k] - 1) : outcome[j] # "none"
    /\ \A k \in {1, 2} : outcome[k] = "absent" => ~InList(k, invoked)

\* mechanism 1 was probed and found absent, and later commands were invoked
C2_Witness == outcome[1] = "absent" /\ outcome[2] = "nonzero" /\ invoked = <<2, 3>>

\* the first parts of C3: no mechanism is invoked twice, and a command that
\* exited zero is the last one invoked and ends pingy_in
C3_StopsAtSuccess ==
    /\ \A i, j \in 1..Len(invoked) : i # j => invoked[i] # invoked[j]
    /\ \A k \in Mechanisms :
          outcome[k] = "ok" => in_pc = "done" /\ invoked[Len(invoked)] = k

\* C3 as stated: first success ends the sequence, nothing is invoked twice,
\* and a mechanism is invoked only if every earlier one was absent (its probe
\* failed) or its command failed with a non-zero exit.
C3_OnlyAfterAbsentOrNonzero ==
    /\ C3_StopsAtSuccess
    /\ \A k \in 1..Len(invoked) : \A j \in 1..(invoked[k] - 1) :
          outcome[j] \in {"absent", "nonzero"}

\* C3, amended: ... or, for mechanism 2, writing its expect script raised a
\* file-not-found error.
C3_OnlyAfterCaughtFailure ==
    /\ C3_StopsAtSuccess
    /\ \A k \in 1..Len(invoked) : \A j \in 1..(invoked[k] - 1) :
          outcome[j] \in {"absent", "nonzero", "fnf"}

\* pingy_in fell through two failed mechanisms and returned at the first
\* command that exited zero
C3_Witness ==
    /\ outcome[1] = "nonzero" /\ outcome[2] = "fnf" /\ outcome[3] = "ok"
    /\ invoked = <<1, 3>> /\ in_pc = "done"

\* the tunnel URLs among the pieces, and those of the free tier
TunnelUrls == {UrlFreeA, UrlFreeB, UrlProA, UrlLegacyA}
FreeUrls == {UrlFreeA, UrlFreeB}

\* the tier of a URL: the index of the tunnel pattern that matches the whole
\* of it, 0 when none does
Tier(u) ==
    IF \E p \in 1..Len(tunnel_patterns) : TunnelMatchLen(u, 1, tunnel_patterns[p]) = Len(u)
    THEN CHOOSE p \in 1..Len(tunnel_patterns) : TunnelMatchLen(u, 1, tunnel_patterns[p]) = Len(u)
    ELSE 0

\* where u first occurs in t (Len(t) + 1 when it does not)
FirstPos(t, u) == Least({k \in 1..(Len(t) + 1) : k > Len(t) \/ HasAt(t, k, u)})

\* C4: when the sink content holds a free-tier URL and a dashboard URL, the
\* list a poll prints holds no URL of the dashboard host, holds every
\* free-tier URL the cleaned content shows, and, the content holding no URL
\* of another kind, holds free-tier URLs only.
C4_FreeTierNotDashboard ==
    ( /\ url_pc = "FOUND"
      /\ \E f \in FreeUrls : Contains(sink.content, f)
      /\ Contains(sink.content, UrlDashboard) )
    => /\ \A k \in 1..Len(printed) : ~Contains(printed[k], DashboardHost)
       /\ \A f \in FreeUrls :
             Contains(Scrape(sink.content).cleaned, f) => InList(f, printed)
       /\ (\A o \in {UrlProA, UrlLegacyA, UrlIo} : ~Contains(sink.content, o))
             => \A k \in 1..Len(printed) : Tier(printed[k]) = 1

\* a poll found the free-tier URL in a content that also holds the dashboard
C4_Witness ==
    /\ url_pc = "FOUND"
    /\ sink.content = UrlDashboard \o TxtSpace \o UrlFreeA
    /\ printed = <<UrlFreeA>>

\* C5: as long as no poll has read content with a matching URL, no URL is
\* printed and pingy_out is not in FOUND; when it ends, it ends in
\* TIMED_OUT, the timeout message printed exactly once.
C5_TimeoutWhenNoUrl ==
    ~sawUrl =>
       /\ printed = <<>>
       /\ hits = 0
       /\ url_pc # "FOUND"
       /\ timeoutMsgs = IF url_pc = "TIMED_OUT" THEN 1 ELSE 0

\* pingy_out timed out while the sink held only the line with the dashboard
C5_Witness ==
    /\ url_pc = "TIMED_OUT" /\ ~sawUrl /\ timeoutMsgs = 1 /\ printed = <<>>
    /\ sink.exists /\ sink.run = run /\ sink.content = OutputPrefix(1)

\* C6 as stated: whatever their tiers, tunnel URLs that occur in the order
\* B, A, B are printed as [B, A].
C6_FirstSeenOrder ==
    url_pc = "FOUND" =>
       \A a, b \in TunnelUrls :
          (a # b /\ sink.content = b \o a \o b) => printed = <<b, a>>

\* C6, amended: B, A, B is printed as [B, A] when B's tier is the same as
\* A's or has priority over it, and as [A, B] when A's tier has priority;
\* in general the printed tunnel URLs are ordered by tier and, within a
\* tier, by first occurrence in the cleaned content.
C6_TierThenFirstSeen ==
    url_pc = "FOUND" =>
       /\ \A a, b \in TunnelUrls :
             (a # b /\ sink.content = b \o a \o b) =>
                printed = IF Tier(a) < Tier(b) THEN <<a, b>> ELSE <<b, a>>
       /\ \A i, j \in 1..Len(printed) :
             (i < j /\ Tier(printed[i]) > 0 /\ Tier(printed[j]) > 0) =>
                \/ Tier(printed[i]) < Tier(printed[j])
                \/ /\ Tier(printed[i]) = Tier(printed[j])
                   /\ FirstPos(Scrape(sink.content).cleaned, printed[i])
                         < FirstPos(Scrape(sink.content).cleaned, printed[j])

\* two free-tier URLs in the order B, A, B were printed as [B, A]
C6_Witness ==
    /\ url_pc = "FOUND"
    /\ sink.content = UrlFreeB \o UrlFreeA \o UrlFreeB
    /\ printed = <<UrlFreeB, UrlFreeA>>

\* C7: no URL is printed twice, and URLs are printed in at most one poll.
C7_SetSemantics ==
    /\ \A i, j \in 1..Len(printed) : i # j => printed[i] # printed[j]
    /\ hits <= 1

\* C8: no poll reads sink content written by an earlier session.
C8_NoStaleRead == ~staleRead

\* whether t has no escape character and no stripped control character
IsClean(t) == \A k \in 1..Len(t) : ~IsEsc(t[k]) /\ ~IsStrippedControl(t[k])

\* stripping applied to its own output, for each content built of pieces
Restrip == [t \in Texts |-> Strip(Strip(t))]

\* C9: stripping the cleaned content again returns it unchanged, and
\* stripping a content that has no escape and no stripped control character
\* returns that content.
C9_StripIdempotent ==
    sink.content \in Texts =>
       /\ Restrip[sink.content] = Scrape(sink.content).cleaned
       /\ IsClean(Scrape(sink.content).cleaned)
       /\ IsClean(sink.content) => Scrape(sink.content).cleaned = sink.content

\* a poll cleaned a content with an escape sequence and a control character
\* in it and found the URL
C9_Witness ==
    /\ url_pc = "FOUND"
    /\ sink.content = TxtCsi \o TxtBel \o UrlFreeA
    /\ Scrape(sink.content).cleaned = UrlFreeA
    /\ printed = <<UrlFreeA>>

\* a turn of pingy_out's loop: time passes in no other step of a running unit
PollTurn == url_pc = "loop" /\ elapsed' # elapsed

\* C10: a poll is started only while elapsed < timeout and reads after a
\* sleep of at least the interval; FOUND is entered by the first poll that
\* has a non-empty list, TIMED_OUT only from the loop condition with
\* elapsed >= timeout and no URL found; a poll that finds no sink file
\* stays in POLLING; nothing is polled or printed after FOUND or TIMED_OUT;
\* and polling always ends.
C10_PollingTerminates ==
    /\ [][ /\ PollTurn => elapsed < Timeout /\ elapsed' >= elapsed + Interval
           /\ PollTurn /\ ~sink.exists => url_pc' = "loop"
           /\ (url_pc' = "FOUND" /\ url_pc # "FOUND") =>
                 /\ PollTurn /\ sink.exists /\ hits = 0 /\ hits' = 1
                 /\ Scrape(sink.content).urls # <<>>
                 /\ printed' = Scrape(sink.content).urls
           /\ (url_pc = "loop" /\ printed' # printed) => url_pc' = "FOUND"
           /\ (url_pc' = "TIMED_OUT" /\ url_pc # "TIMED_OUT") =>
                 /\ url_pc = "loop" /\ elapsed >= Timeout /\ elapsed' = elapsed
                 /\ hits = 0 /\ printed = <<>>
           /\ (url_pc \in {"FOUND", "TIMED_OUT"} /\ run' = run) =>
                 /\ url_pc' = url_pc /\ elapsed' = elapsed
                 /\ printed' = printed /\ timeoutMsgs' = timeoutMsgs
         ]_vars
    /\ (url_pc = "loop") ~> (url_pc # "loop")

\* pingy_out polled a missing sink, went on polling and ended in TIMED_OUT
\* at the first loop check with elapsed >= timeout
C10_Witness ==
    /\ url_pc = "TIMED_OUT" /\ elapsed \in Timeout..(Timeout + Interval + MaxDelay - 1)
    /\ ~sink.exists /\ invoked = <<>> /\ run = 1 /\ runn_pc = "join_url"

\* C11: no failure inside a unit escapes it: no unit dies of an exception
\* other than the user interrupt; webui, pingy_in and pingy_out return.
C11_NoEscapedError ==
    /\ webui_pc # "crashed"
    /\ in_pc # "crashed"
    /\ url_pc # "crashed"

\* the units runn awaits
UnitsStarted == webui_pc # "idle" /\ in_pc # "idle" /\ url_pc # "idle"
UnitsEnded == Ended(webui_pc) /\ Ended(in_pc) /\ Ended(url_pc)

\* C12: runn awaits a unit only when all three are started; without an
\* interrupt it leaves its try block only from the last join and only when
\* all three units have ended; it returns only through the finally clause;
\* and a unit that has ended stays ended for the rest of the session, so
\* that runn, not interrupted, has returned only after all three ended.
C12_StartAllThenWaitAll ==
    [][ /\ runn_pc \in {"join_tun", "join_app", "join_url"} => UnitsStarted
        /\ (runn_pc' = "finally" /\ runn_pc # "finally" /\ runn_pc # "except") =>
              runn_pc = "join_url" /\ UnitsEnded
        /\ (runn_pc' = "returned" /\ runn_pc # "returned") => runn_pc = "finally"
        /\ (runn_pc' = "except" /\ runn_pc # "except") => runn_pc \in InTry
        /\ run' = run =>
              /\ Ended(webui_pc) => webui_pc' = webui_pc
              /\ Ended(in_pc) => in_pc' = in_pc
              /\ Ended(url_pc) => url_pc' = url_pc
      ]_vars

\* every mechanism of pingy_in failed and pingy_out timed out, no unit was
\* interrupted, and runn returned after the application ended as the last
C12_Witness ==
    /\ runn_pc = "returned" /\ run = 1
    /\ webui_pc = "done"
    /\ in_pc = "done" /\ outcome[4] = "nonzero" /\ invoked = <<3, 4>>
    /\ url_pc = "TIMED_OUT" /\ timeoutMsgs = 1

====
